---- MODULE Spec2Model ----
(***************************************************************************)
(* A model of goes.py: the GOES X-ray flux pipeline (temperature and       *)
(* emission measure, radiative losses, X-ray luminosity and the time       *)
(* integration helper).                                                    *)
(*                                                                         *)
(* Every function of the module is a pure function of its arguments and    *)
(* of the reference table it reads.  A behaviour of the model is one call: *)
(* the initial state holds the call (the function and its arguments) and   *)
(* the reference files, the single step applies the function and stores   *)
(* what it returns or raises, the calls it made and its file accesses.     *)
(*                                                                         *)
(* Numbers.  Python floats are modelled as exact rationals <<n, d>> in     *)
(* lowest terms with d > 0; numpy timedelta64[ms] values are integers      *)
(* (milliseconds) with numpy's integer division, which truncates towards   *)
(* zero.  Rounding of IEEE doubles is not modelled.                        *)
(***************************************************************************)
EXTENDS Integers, Sequences, FiniteSets, TLC

VARIABLES
    call,     \* the function called and its arguments
    ret,      \* what the call returned or raised
    calls,    \* the calls of the estimators that goes_chianti_tem made
    pc,       \* "call" before the call, "done" after it
    files,    \* the reference files in DATA_PATH: file name -> lines
    events,   \* the file accesses and spline evaluations of the call, in order
    goeslc,   \* the light curve object handed to a wrapper
    disk      \* directory -> file name -> how often the file was written there

vars == <<call, ret, calls, pc, files, events, goeslc, disk>>

---------------------------------------------------------------------------
(* Bounds of the model. *)

\* longest obstime array
MaxObs == 4
\* largest step, in ms, between two neighbouring timestamps
MaxStep == 3
\* longest sample array (temp, em, longflux, shortflux)
MaxLen == 4

---------------------------------------------------------------------------
(* Python values. *)

None == [isNone |-> TRUE]
Some(v) == [isNone |-> FALSE, val |-> v]

\* a call that raised: no value is returned
Raise(kind, msg) == [raised |-> kind, msg |-> msg]
\* a call that returned
Return(v) == [raised |-> "none", value |-> v]
Pending == [raised |-> "pending"]

Returned(r) == r.raised = "none"
Raised(r) == r.raised \notin {"none", "pending"}

---------------------------------------------------------------------------
(* Exact rational arithmetic standing for float64 arithmetic. *)

Abs(a) == IF a < 0 THEN 0 - a ELSE a

RECURSIVE GCD(_, _)
GCD(a, b) == IF b = 0 THEN a ELSE GCD(b, a % b)

\* n/d in lowest terms, d > 0
Rat(n, d) ==
    LET s == IF d < 0 THEN 0 - 1 ELSE 1
        g == GCD(Abs(n), Abs(d))
    IN  <<(s * n) \div g, (s * d) \div g>>

Int2Rat(i) == <<i, 1>>

\* the operations cancel common factors before they multiply, so that the
\* intermediate values stay small
LCM(a, b) == (a \div GCD(a, b)) * b
RatAdd(a, b) ==
    LET l == LCM(a[2], b[2])
    IN  Rat(a[1] * (l \div a[2]) + b[1] * (l \div b[2]), l)
RatNeg(a) == <<0 - a[1], a[2]>>
RatSub(a, b) == RatAdd(a, RatNeg(b))
RatMul(a, b) ==
    LET g1 == GCD(Abs(a[1]), b[2])
        g2 == GCD(Abs(b[1]), a[2])
    IN  Rat((a[1] \div g1) * (b[1] \div g2), (a[2] \div g2) * (b[2] \div g1))
RatInv(a) == Rat(a[2], a[1])
RatDiv(a, b) == RatMul(a, RatInv(b))
RatLt(a, b) ==
    LET l == LCM(a[2], b[2])
    IN  a[1] * (l \div a[2]) < b[1] * (l \div b[2])
RatLe(a, b) == ~RatLt(b, a)

\* np.min / np.max of a non-empty array
RECURSIVE RatMin(_)
RatMin(s) ==
    IF Len(s) = 1 THEN s[1]
    ELSE LET m == RatMin(Tail(s)) IN IF RatLt(s[1], m) THEN s[1] ELSE m

RECURSIVE RatMax(_)
RatMax(s) ==
    IF Len(s) = 1 THEN s[1]
    ELSE LET m == RatMax(Tail(s)) IN IF RatLt(m, s[1]) THEN s[1] ELSE m

\* np.sum
RECURSIVE RatSum(_)
RatSum(s) == IF Len(s) = 0 THEN <<0, 1>> ELSE RatAdd(s[1], RatSum(Tail(s)))

\* a[:k]
Prefix(a, k) == SubSeq(a, 1, IF k < Len(a) THEN k ELSE Len(a))

\* numpy broadcasting of two 1-d arrays: equal lengths, or one has length 1
CanBroadcast(a, b) == Len(a) = Len(b) \/ Len(a) = 1 \/ Len(b) = 1

\* a * b elementwise, for arrays that broadcast
ArrMul(a, b) ==
    LET n == IF Len(a) = 1 THEN Len(b) ELSE Len(a)
    IN  [i \in 1..n |->
            RatMul(IF Len(a) = 1 THEN a[1] ELSE a[i],
                   IF Len(b) = 1 THEN b[1] ELSE b[i])]

---------------------------------------------------------------------------
(* _time_intervals *)

\* timedelta64[ms] / 2: numpy divides the integer count of milliseconds and
\* truncates towards zero
HalfDelta(a, b) ==
    IF b - a >= 0 THEN (b - a) \div 2 ELSE 0 - ((a - b) \div 2)

\* dt.astype(float) / 1e3: milliseconds to seconds
MsToSeconds(ms) == Rat(ms, 1000)

\* len(obstime) < 2
TooFewTimesOne(obstime) == Len(obstime) < 1
TooFewTimes(obstime) == Len(obstime) < 2

\* the weights in ms, before the conversion to seconds, for len(obstime) >= 2
IntervalsMs(obstime) ==
    LET n == Len(obstime)
    IN  IF n = 2
        THEN LET dt == HalfDelta(obstime[1], obstime[2]) IN <<dt, dt>>
        ELSE LET inner == [i \in 1..(n - 2) |-> HalfDelta(obstime[i], obstime[i + 2])]
                 first == HalfDelta(obstime[1], obstime[2])
                 last  == HalfDelta(obstime[n - 1], obstime[n])
             IN  Append(<<first>> \o inner, last)

_time_intervals(obstime) ==
    IF TooFewTimes(obstime)
    THEN Raise("IOError", "obstime must have 2 or more elements.")
    ELSE IF Len(obstime) < 2
    \* obstime[1] of an array that short is an IndexError
    THEN Raise("IndexError", "index out of bounds")
    ELSE LET ms == IntervalsMs(obstime)
         IN  Return([i \in 1..Len(ms) |-> MsToSeconds(ms[i])])

---------------------------------------------------------------------------
(* Reference files, the tables read from them and the spline through them. *)

FILE_TEMP_COR == "goes_chianti_temp_cor.csv"
FILE_TEMP_PHO == "goes_chianti_temp_pho.csv"
FILE_EM_COR == "goes_chianti_em_cor.csv"
FILE_EM_PHO == "goes_chianti_em_pho.csv"
FILE_RAD_COR == "chianti_rad_loss.csv"

FileNames == {FILE_TEMP_COR, FILE_TEMP_PHO, FILE_EM_COR, FILE_EM_PHO, FILE_RAD_COR}

\* A line of a reference file is a comment (it begins with the character that
\* the reader of the file tests for), the header row of the column names, or a
\* data row: the temperature and the value of the dependent column.  The
\* temperature and emission measure files have the columns log10temp_MK and
\* one per satellite, GOES 1 to 15, which all hold the same values here.
CommentLine == [kind |-> "comment"]
HeaderLine == [kind |-> "header"]
DataLine(temp, value) == [kind |-> "row", temp |-> temp, value |-> value]

TableSatellites == 1..15

\* "ratioGOES{0}".format(satellite) is a column of the file
HasColumn(satellite) == satellite.v \in TableSatellites

\* dropwhile(lambda l: l.startswith("#"), csvfile): the lines from the first
\* one on that is not a comment
RECURSIVE dropwhileAnywhere(_)
dropwhileAnywhere(lines) ==
    IF Len(lines) = 0 THEN lines
    ELSE IF lines[1].kind = "comment" THEN dropwhileAnywhere(Tail(lines))
    ELSE <<lines[1]>> \o dropwhileAnywhere(Tail(lines))
RECURSIVE dropwhile(_)
dropwhile(lines) ==
    IF Len(lines) = 0 \/ lines[1].kind # "comment"
    THEN lines
    ELSE dropwhile(Tail(lines))

EmptyTable == [temp |-> <<>>, value |-> <<>>]

\* for row in csvreader: append float(row[<temperature>]), then
\* float(row[<value>]).  A line that is not a data row has text where the
\* number is expected.
RECURSIVE ReadRows(_, _, _, _)
ReadRows(rows, hasTemp, hasLabel, table) ==
    IF Len(rows) = 0 THEN Return(table)
    ELSE IF ~hasTemp THEN Raise("KeyError", "log10temp_MK")
    ELSE IF rows[1].kind # "row"
    THEN Raise("ValueError", "could not convert string to float")
    ELSE IF ~hasLabel THEN Raise("KeyError", "label")
    ELSE ReadRows(Tail(rows), hasTemp, hasLabel,
                  [temp  |-> Append(table.temp, rows[1].temp),
                   value |-> Append(table.value, rows[1].value)])

\* csv.DictReader(startline, delimiter=";") and the loop over its rows: the
\* first line that dropwhile leaves gives the column names
ReadDictTable(lines, hasLabel) ==
    LET startline == dropwhile(lines)
    IN  IF Len(startline) = 0 THEN Return(EmptyTable)
        ELSE ReadRows(Tail(startline), startline[1].kind = "header",
                      startline[1].kind = "header" /\ hasLabel, EmptyTable)

\* csv.reader(startline, delimiter=" ") and the loop over its rows
ReadPlainTable(lines) == ReadRows(dropwhile(lines), TRUE, TRUE, EmptyTable)

\* modeltemp and modelratio of a temperature file: log10temp_MK, ratioGOES<n>
TempTable(data_file) ==
    LET t == ReadDictTable(files[data_file], TRUE).value
    IN  [modelratio |-> t.value, modeltemp |-> t.temp]

\* modeltemp and modelflux of an emission measure file: log10temp_MK,
\* longfluxGOES<n>
EmTable(data_file) ==
    LET t == ReadDictTable(files[data_file], TRUE).value
    IN  [modeltemp |-> t.temp, modelflux |-> t.value]

\* chianti_rad_loss.csv: temperature [K] and loss rate per unit emission
\* measure
RadLossTable ==
    LET t == ReadPlainTable(files[FILE_RAD_COR]).value
    IN  [modeltemp |-> t.temp, model_loss_rate |-> t.value]

\* splrep(x, y, s=0) fits a cubic spline and needs more than 3 points
TooFewKnots(x) == Len(x) < 4

\* interpolate.splev(q, interpolate.splrep(x, y, s=0)): the interpolating cubic
\* spline.  The tables of the model are samples of a straight line, and the
\* interpolating spline of collinear points is that line.
Splev(x, y, q) ==
    RatAdd(y[1], RatMul(RatSub(q, x[1]),
                        RatDiv(RatSub(y[2], y[1]), RatSub(x[2], x[1]))))

\* The reference files are not part of the source.  The files of the model
\* hold, after one comment line and the header row, four points of a straight
\* line, a different one in each file.
TableRows(temps, values) == [i \in 1..Len(temps) |-> DataLine(temps[i], values[i])]

RowsOf(f) ==
    IF f = FILE_TEMP_COR
    THEN TableRows(<<Rat(2, 1000), Rat(1, 2), Rat(1, 1), Rat(2, 1)>>,
                   <<Rat(1, 1000), Rat(1, 4), Rat(1, 2), Rat(1, 1)>>)
    ELSE IF f = FILE_TEMP_PHO
    THEN TableRows(<<Rat(1001, 1000), Rat(5, 4), Rat(3, 2), Rat(2, 1)>>,
                   <<Rat(1, 1000), Rat(1, 4), Rat(1, 2), Rat(1, 1)>>)
    ELSE IF f = FILE_EM_COR
    THEN TableRows(<<Rat(0, 1), Rat(1, 2), Rat(1, 1), Rat(2, 1)>>,
                   <<Rat(1, 1), Rat(3, 2), Rat(2, 1), Rat(3, 1)>>)
    ELSE IF f = FILE_EM_PHO
    THEN TableRows(<<Rat(0, 1), Rat(1, 2), Rat(1, 1), Rat(2, 1)>>,
                   <<Rat(2, 1), Rat(3, 1), Rat(4, 1), Rat(6, 1)>>)
    ELSE TableRows(<<Int2Rat(1000000), Int2Rat(2000000),
                     Int2Rat(3000000), Int2Rat(4000000)>>,
                   <<Int2Rat(1), Int2Rat(2), Int2Rat(3), Int2Rat(4)>>)

\* chianti_rad_loss.csv has no header row
HeaderOf(f) == IF f = FILE_RAD_COR THEN <<>> ELSE <<HeaderLine>>

ShippedFiles == [f \in FileNames |-> <<CommentLine>> \o HeaderOf(f) \o RowsOf(f)]

\* Other contents a file can have: no comment line, two of them, only comment
\* lines, and a comment line after the header row, between two data rows or at
\* the end of the file.
Layouts == {"none", "two", "only", "afterHeader", "between", "last"}

LinesOf(f, layout) ==
    LET rows == RowsOf(f)
    IN  IF layout = "none" THEN HeaderOf(f) \o rows
        ELSE IF layout = "two" THEN <<CommentLine, CommentLine>> \o HeaderOf(f) \o rows
        ELSE IF layout = "only" THEN <<CommentLine, CommentLine>>
        ELSE IF layout = "afterHeader"
        THEN <<CommentLine>> \o HeaderOf(f) \o <<CommentLine>> \o rows
        ELSE IF layout = "between"
        THEN <<CommentLine>> \o HeaderOf(f) \o <<rows[1], CommentLine>> \o Tail(rows)
        ELSE <<CommentLine>> \o HeaderOf(f) \o rows \o <<CommentLine>>

\* Tables of a narrower range: a temperature table whose smallest ratio is
\* 0.01, and an emission measure table that starts at log10(T / MK) = 0.5.
NarrowTempFiles ==
    [ShippedFiles EXCEPT ![FILE_TEMP_COR] =
        <<CommentLine, HeaderLine>> \o
        TableRows(<<Rat(2, 100), Rat(1, 2), Rat(1, 1), Rat(2, 1)>>,
                  <<Rat(1, 100), Rat(1, 4), Rat(1, 2), Rat(1, 1)>>)]
NarrowEmFiles ==
    [ShippedFiles EXCEPT ![FILE_EM_COR] =
        <<CommentLine, HeaderLine>> \o
        TableRows(<<Rat(1, 2), Rat(1, 1), Rat(3, 2), Rat(2, 1)>>,
                  <<Rat(3, 2), Rat(2, 1), Rat(5, 2), Rat(3, 1)>>)]

\* The directories: DATA_PATH, the download directory of the configuration,
\* and one other directory that a caller can name as download_dir.
DATA_PATH == "DATA_PATH"
OtherDir == "elsewhere"
Dirs == {DATA_PATH, OtherDir}

\* the directories as installed: DATA_PATH holds every reference file
InstalledDisk ==
    [d \in Dirs |-> [f \in FileNames |-> IF d = DATA_PATH THEN 1 ELSE 0]]

\* download=False, download_dir=DATA_PATH: the keyword arguments of the call
\* and their defaults.  goes_chianti_tem and the wrappers hand both on to the
\* estimators as they got them.
Download == IF "download" \in DOMAIN call THEN call.download ELSE FALSE
DownloadDir == IF "download_dir" \in DOMAIN call THEN call.download_dir ELSE DATA_PATH

\* check_download_file(file, GOES_REMOTE_PATH, download_dir, replace=download)
\* fetches the file into download_dir when it is told to replace it or when
\* download_dir does not hold it, and leaves it alone otherwise.  The remote
\* host is taken to answer.
Fetches(d, file) == Download \/ d[DownloadDir][file] = 0
check_download_file(d, file) ==
    IF Fetches(d, file)
    THEN [d EXCEPT ![DownloadDir][file] = @ + 1]
    ELSE d

\* open(os.path.join(DATA_PATH, file), "r") of a file that DATA_PATH does not
\* hold after check_download_file(file, ...) is an IOError
OpenDir == DATA_PATH
OpenFails(file) == check_download_file(disk, file)[OpenDir][file] = 0

NoSuchFile == Raise("IOError", "[Errno 2] No such file or directory")

\* The file accesses of a call: check_download_file(file, ...),
\* open(os.path.join(DATA_PATH, file)), and the evaluation of a spline fitted
\* to the table of a file.
Ensure(file) == [ev |-> "check_download_file", file |-> file]
Open(file) == [ev |-> "open", file |-> file]
Spline(file) == [ev |-> "splev", file |-> file]

\* the directories after the check_download_file steps among the accesses
RECURSIVE DiskAfter(_, _)
DiskAfter(d, evs) ==
    IF Len(evs) = 0 THEN d
    ELSE DiskAfter(IF evs[1].ev = "check_download_file"
                   THEN check_download_file(d, evs[1].file)
                   ELSE d,
                   Tail(evs))

DataDirs ==
    {ShippedFiles, NarrowTempFiles, NarrowEmFiles} \cup
    {[ShippedFiles EXCEPT ![f] = LinesOf(f, layout)] : f \in FileNames, layout \in Layouts}

---------------------------------------------------------------------------
(* The time integration shared by calc_rad_loss and goes_lx. *)

\* len(a) != len(b) != len(c): Python chains the comparison as
\* (len(a) != len(b)) and (len(b) != len(c))
LengthsDisagree(a, b, c) == Len(a) # Len(b) /\ Len(b) # Len(c)

\* np.min(dt) <= 0
NotChronologicalStrict(dt) == RatLt(RatMin(dt), <<0, 1>>)
NotChronological(dt) == RatLe(RatMin(dt), <<0, 1>>)

\* np.sum(rate * dt)
Integrate(rate, dt) == RatSum(ArrMul(rate, dt))

\* for i in range(n): cumul[i] = np.sum(rate[:i+1] * dt[:i+1])
Cumulative(rate, dt, n) ==
    [i \in 1..n |-> Integrate(Prefix(rate, i), Prefix(dt, i))]

\* every slice product of the loop broadcasts
CumulativeBroadcasts(rate, dt, n) ==
    \A i \in 1..n : CanBroadcast(Prefix(rate, i), Prefix(dt, i))

\* goes_lx: cumulative is True
CumulativeIsTrueAlways(cumulative) == TRUE
CumulativeIsTrue(cumulative) == cumulative = TRUE

\* the else branch: cumulative without obstime
CumulativeNeedsObstimeIgnored(cumulative) == FALSE
CumulativeNeedsObstime(cumulative) == cumulative = TRUE

---------------------------------------------------------------------------
(* calc_rad_loss *)

calc_rad_loss(temp, em, obstime, cumulative) ==
    LET read == ReadPlainTable(files[FILE_RAD_COR])
    IN
    IF OpenFails(FILE_RAD_COR) THEN NoSuchFile
    ELSE IF Raised(read) THEN read
    ELSE
    LET modeltemp == RadLossTable.modeltemp
        model_loss_rate == RadLossTable.model_loss_rate
        tempK == [i \in 1..Len(temp) |-> RatMul(temp[i], Int2Rat(1000000))]
    IN
    IF Len(temp) = 0 \/ Len(modeltemp) = 0
    THEN Raise("ValueError", "zero-size array to reduction operation minimum")
    ELSE IF RatLt(RatMin(tempK), RatMin(modeltemp))
            \/ RatLt(RatMax(modeltemp), RatMax(tempK))
    THEN Raise("ValueError", "All values in temp must be within the range")
    ELSE IF TooFewKnots(modeltemp)
    THEN Raise("TypeError", "m > k must hold")
    ELSE
    LET loss == [i \in 1..Len(tempK) |-> Splev(modeltemp, model_loss_rate, tempK[i])]
    IN
    IF ~CanBroadcast(em, loss)
    THEN Raise("ValueError", "operands could not be broadcast together")
    ELSE
    LET rad_loss_rate == ArrMul(em, loss)
    IN
    IF ~obstime.isNone
    THEN IF LengthsDisagree(temp, em, obstime.val)
         THEN Raise("ValueError", "temp, em, and obstime must all have same number of elements.")
         ELSE
         LET ti == _time_intervals(obstime.val)
         IN
         IF Raised(ti) THEN ti
         ELSE
         LET dt == ti.value
         IN
         IF NotChronological(dt)
         THEN Raise("ValueError", "times in obstime must be in chronological order.")
         ELSE IF ~CanBroadcast(rad_loss_rate, dt)
         THEN Raise("ValueError", "operands could not be broadcast together")
         ELSE
         LET rad_loss_int == Integrate(rad_loss_rate, dt)
             n == Len(obstime.val)
         IN
         IF cumulative
         THEN IF ~CumulativeBroadcasts(rad_loss_rate, dt, n)
              THEN Raise("ValueError", "operands could not be broadcast together")
              ELSE Return([rad_loss_rate  |-> rad_loss_rate,
                           rad_loss_cumul |-> Cumulative(rad_loss_rate, dt, n),
                           rad_loss_int   |-> rad_loss_int])
         ELSE Return([rad_loss_rate |-> rad_loss_rate,
                      rad_loss_int  |-> rad_loss_int])
    ELSE IF CumulativeNeedsObstime(cumulative)
         THEN Raise("IOError", "cumulative keyword is True but obstime keyword is None.")
         ELSE Return([rad_loss_rate |-> rad_loss_rate])

\* the file accesses of calc_rad_loss: the file is ensured and opened, and once
\* the temperatures are found in range the spline is evaluated
RadLossEvents(temp) ==
    LET read == ReadPlainTable(files[FILE_RAD_COR])
        tempK == [i \in 1..Len(temp) |-> RatMul(temp[i], Int2Rat(1000000))]
    IN  <<Ensure(FILE_RAD_COR), Open(FILE_RAD_COR)>> \o
        (IF /\ ~OpenFails(FILE_RAD_COR)
            /\ Returned(read)
            /\ Len(temp) > 0
            /\ Len(read.value.temp) >= 4
            /\ ~RatLt(RatMin(tempK), RatMin(read.value.temp))
            /\ ~RatLt(RatMax(read.value.temp), RatMax(tempK))
         THEN <<Spline(FILE_RAD_COR)>>
         ELSE <<>>)

---------------------------------------------------------------------------
(* _calc_xraylum and goes_lx *)

\* sun.sunearth_distance(t=date), in AU: a function of the date alone, here
\* its value on the one date of the model (the docstring's 2014-04-21)
sunearth_distance(date) == Rat(101, 100)

\* 4 * pi * (au * d)**2 * 1e7 * flux, in units of 4 * pi * au**2 * 1e7
_calc_xraylum(flux, date) ==
    LET d == IF date.isNone THEN Int2Rat(1) ELSE sunearth_distance(date.val)
    IN  [i \in 1..Len(flux) |-> RatMul(RatMul(d, d), flux[i])]

goes_lx(longflux, shortflux, obstime, date, cumulative) ==
    LET longlum == _calc_xraylum(longflux, date)
        shortlum == _calc_xraylum(shortflux, date)
    IN
    IF ~obstime.isNone
    THEN IF LengthsDisagree(longflux, shortflux, obstime.val)
         THEN Raise("ValueError", "longflux, shortflux, and obstime must all have same number of elements.")
         ELSE
         LET ti == _time_intervals(obstime.val)
         IN
         IF Raised(ti) THEN ti
         ELSE
         LET dt == ti.value
         IN
         IF NotChronological(dt)
         THEN Raise("ValueError", "times in obstime must be in chronological order.")
         ELSE IF ~CanBroadcast(longlum, dt) \/ ~CanBroadcast(shortlum, dt)
         THEN Raise("ValueError", "operands could not be broadcast together")
         ELSE
         LET longlum_int == Integrate(longlum, dt)
             shortlum_int == Integrate(shortlum, dt)
             n == Len(obstime.val)
         IN
         IF CumulativeIsTrue(cumulative)
         THEN IF ~CumulativeBroadcasts(longlum, dt, n)
                 \/ ~CumulativeBroadcasts(shortlum, dt, n)
              THEN Raise("ValueError", "operands could not be broadcast together")
              ELSE Return([longlum        |-> longlum,
                           shortlum       |-> shortlum,
                           longlum_cumul  |-> Cumulative(longlum, dt, n),
                           shortlum_cumul |-> Cumulative(shortlum, dt, n),
                           longlum_int    |-> longlum_int,
                           shortlum_int   |-> shortlum_int,
                           dt             |-> dt])
         ELSE Return([longlum      |-> longlum,
                      shortlum     |-> shortlum,
                      longlum_int  |-> longlum_int,
                      shortlum_int |-> shortlum_int,
                      dt           |-> dt])
    ELSE IF CumulativeNeedsObstime(cumulative)
         THEN Raise("IOError", "cumulative keyword is True but obstime keyword is None.")
         ELSE Return([longlum |-> longlum, shortlum |-> shortlum])

---------------------------------------------------------------------------
(* The calls of the time-integration functions. *)

\* steps, in ms, from one timestamp to the next: backwards, none, odd and even
Steps == (0 - 1)..MaxStep

\* the array of timestamps [ms] that starts at 0 and advances by the steps
RECURSIVE TimesFrom(_, _)
TimesFrom(t, steps) ==
    IF Len(steps) = 0 THEN <<t>>
    ELSE <<t>> \o TimesFrom(t + steps[1], Tail(steps))

\* every obstime array of at most MaxObs timestamps
ObsTimes ==
    {<<>>} \cup
    UNION {{TimesFrom(0, st) : st \in [1..(n - 1) -> Steps]} : n \in 1..MaxObs}

ObsTimeArgs == {None} \cup {Some(t) : t \in ObsTimes}

\* sample arrays: n times the same value, or the ramp 1, 2, ..., n
ConstArrays(V) == UNION {{[i \in 1..n |-> Int2Rat(v)] : v \in V} : n \in 0..MaxLen}
RampArrays == {[i \in 1..n |-> Int2Rat(i)] : n \in 0..MaxLen}

\* temperatures [MK] inside (2) and outside (9) the loss-rate table
TempArrays == ConstArrays({2, 9})
EmArrays == ConstArrays({1}) \cup RampArrays
LongFluxArrays == ConstArrays({7}) \cup RampArrays
ShortFluxArrays == ConstArrays({1})
LxDates == {None, Some(<<2014, 4, 21>>)}

TimeIntervalsCalls ==
    [op : {"_time_intervals"}, obstime : ObsTimes]

CalcRadLossCalls ==
    [op : {"calc_rad_loss"}, temp : TempArrays, em : EmArrays,
     obstime : ObsTimeArgs, cumulative : BOOLEAN]

GoesLxCalls ==
    [op : {"goes_lx"}, longflux : LongFluxArrays, shortflux : ShortFluxArrays,
     obstime : ObsTimeArgs, date : LxDates, cumulative : BOOLEAN]

InitIntegration ==
    /\ call \in TimeIntervalsCalls \cup CalcRadLossCalls \cup GoesLxCalls
    /\ ret = Pending
    /\ calls = <<>>
    /\ pc = "call"
    /\ files = ShippedFiles
    /\ events = <<>>
    /\ goeslc = None
    /\ disk = InstalledDisk

CallTimeIntervals ==
    /\ pc = "call"
    /\ call.op = "_time_intervals"
    /\ ret' = _time_intervals(call.obstime)
    /\ pc' = "done"
    /\ UNCHANGED <<call, calls, files, events, goeslc, disk>>

CallCalcRadLoss ==
    /\ pc = "call"
    /\ call.op = "calc_rad_loss"
    /\ ret' = calc_rad_loss(call.temp, call.em, call.obstime, call.cumulative)
    /\ events' = RadLossEvents(call.temp)
    /\ pc' = "done"
    /\ disk' = DiskAfter(disk, events')
    /\ UNCHANGED <<call, calls, files, goeslc>>

CallGoesLx ==
    /\ pc = "call"
    /\ call.op = "goes_lx"
    /\ ret' = goes_lx(call.longflux, call.shortflux, call.obstime, call.date,
                      call.cumulative)
    /\ pc' = "done"
    /\ UNCHANGED <<call, calls, files, events, goeslc, disk>>

NextIntegration ==
    \/ CallTimeIntervals
    \/ CallCalcRadLoss
    \/ CallGoesLx

SpecIntegration == InitIntegration /\ [][NextIntegration]_vars

---------------------------------------------------------------------------
(* goes_chianti_tem and the two estimators it calls. *)
(*                                                                         *)
(* Fluxes are in units of 1e-10 W/m^2 and temperatures are held as         *)
(* log10(T / MK) (10.** and np.log10 are exact inverses of each other      *)
(* here).  An emission measure longflux / denom * 1e55 is held as the pair *)
(* <<longflux, denom>>: the quotient of two rationals, left unevaluated    *)
(* because its terms exceed the integers of the model checker.             *)

\* a Python int, and the text token of one (as in "GOES 15".split()[1])
PyInt(n) == [type |-> "int", v |-> n]
PyStr(n) == [type |-> "str", v |-> n]

\* satellite < k, satellite > k, satellite == k.  Python 2 orders a number
\* before any string, and a string is equal to no number.
SatLt(satellite, k) == satellite.type = "int" /\ satellite.v < k
SatGt(satellite, k) == satellite.type = "str" \/ satellite.v > k
SatEq(satellite, k) == satellite.type = "int" /\ satellite.v = k

\* dates are <<year, month, day>>
DateLt(a, b) ==
    \/ a[1] < b[1]
    \/ a[1] = b[1] /\ a[2] < b[2]
    \/ a[1] = b[1] /\ a[2] = b[2] /\ a[3] < b[3]

\* datetime.datetime(1983, 06, 28)
Goes6CorrectionDate == <<1983, 6, 28>>

\* date < datetime.datetime(1983, 06, 28) and satellite == 6
NeedsGoes6CorrectionInclusive(satellite, date) ==
    ~DateLt(Goes6CorrectionDate, date) /\ SatEq(satellite, 6)
NeedsGoes6Correction(satellite, date) ==
    DateLt(date, Goes6CorrectionDate) /\ SatEq(satellite, 6)

\* satellite > 7
IsScaledToGoes7From7(satellite) == SatGt(satellite, 6)
IsScaledToGoes7(satellite) == SatGt(satellite, 7)

\* longflux_corrected
LongfluxCorrected(longflux, satellite, date) ==
    LET goes6 == IF NeedsGoes6Correction(satellite, date)
                 THEN [i \in 1..Len(longflux) |-> RatMul(longflux[i], Rat(443, 532))]
                 ELSE longflux
    IN  IF IsScaledToGoes7(satellite)
        THEN [i \in 1..Len(goes6) |-> RatDiv(goes6[i], Rat(7, 10))]
        ELSE goes6

\* shortflux_corrected
ShortfluxCorrected(shortflux, satellite) ==
    IF IsScaledToGoes7(satellite)
    THEN [i \in 1..Len(shortflux) |-> RatDiv(shortflux[i], Rat(85, 100))]
    ELSE shortflux

\* the thresholds 1e-10 and 3e-8 W/m^2, and the ratio of a sample below them
ShortfluxThreshold == Int2Rat(1)
LongfluxThreshold == Int2Rat(300)
BadDataRatioTenth == Rat(3, 10000)
BadDataRatio == Rat(3, 1000)

\* np.logical_or(shortflux_corrected < 1e-10, longflux_corrected < 3e-8)
IsBadDataLongOnly(short, long) == RatLt(long, LongfluxThreshold)
IsBadDataInclusive(short, long) ==
    RatLe(short, ShortfluxThreshold) \/ RatLt(long, LongfluxThreshold)
IsBadData(short, long) ==
    RatLt(short, ShortfluxThreshold) \/ RatLt(long, LongfluxThreshold)

\* fluxratio = shortflux_corrected / longflux_corrected; fluxratio[index] = 0.003
\* (a division by zero gives inf or nan, which the mask then overwrites)
Fluxratio(shortflux_corrected, longflux_corrected) ==
    [i \in 1..Len(shortflux_corrected) |->
        IF IsBadData(shortflux_corrected[i], longflux_corrected[i])
        THEN BadDataRatio
        ELSE RatDiv(shortflux_corrected[i], longflux_corrected[i])]

\* data_file of the two estimators.  The caller has checked abundances.
TempDataFileSwapped(abundances) ==
    IF abundances = "coronal" THEN FILE_TEMP_PHO ELSE FILE_TEMP_COR
TempDataFile(abundances) ==
    IF abundances = "coronal" THEN FILE_TEMP_COR ELSE FILE_TEMP_PHO
EmDataFile(abundances) ==
    IF abundances = "coronal" THEN FILE_EM_COR ELSE FILE_EM_PHO

\* np.min(fluxratio) < np.min(modelratio) or
\* np.max(fluxratio) > np.max(modelratio)
OutOfRangeBelowOnly(q, model) == RatLt(RatMin(q), RatMin(model))
OutOfRange(q, model) ==
    RatLt(RatMin(q), RatMin(model)) \/ RatLt(RatMax(model), RatMax(q))

_goes_get_chianti_temp(fluxratio, satellite, abundances) ==
    IF SatLt(satellite, 1)
    THEN Raise("ValueError", "satellite must be the number of a valid GOES satellite (>1).")
    ELSE IF abundances \notin {"coronal", "photospheric"}
    THEN Raise("ValueError", "abundances must be a string equalling 'coronal' or 'photospheric'.")
    ELSE
    LET data_file == TempDataFile(abundances)
        read == ReadDictTable(files[data_file], HasColumn(satellite))
    IN
    IF OpenFails(data_file) THEN NoSuchFile
    ELSE IF Raised(read) THEN read
    ELSE
    LET modeltemp == TempTable(data_file).modeltemp
        modelratio == TempTable(data_file).modelratio
    IN
    IF Len(fluxratio) = 0 \/ Len(modelratio) = 0
    THEN Raise("ValueError", "zero-size array to reduction operation minimum")
    ELSE IF OutOfRange(fluxratio, modelratio)
    THEN Raise("ValueError", "all values in fluxratio input must be within the range")
    ELSE IF TooFewKnots(modelratio)
    THEN Raise("TypeError", "m > k must hold")
    ELSE Return([i \in 1..Len(fluxratio) |-> Splev(modelratio, modeltemp, fluxratio[i])])

\* len(longflux) != len(temp)
EmLengthsDifferLonger(longflux, temp) == Len(longflux) > Len(temp)
EmLengthsDiffer(longflux, temp) == Len(longflux) # Len(temp)

_goes_get_chianti_em(longflux, temp, satellite, abundances) ==
    IF SatLt(satellite, 1)
    THEN Raise("ValueError", "satellite must be the number of a valid GOES satellite (>1).")
    ELSE IF abundances \notin {"coronal", "photospheric"}
    THEN Raise("ValueError", "abundances must be a string equalling 'coronal' or 'photospheric'.")
    ELSE IF EmLengthsDiffer(longflux, temp)
    THEN Raise("ValueError", "longflux and temp must have same number of elements.")
    ELSE
    LET data_file == EmDataFile(abundances)
        read == ReadDictTable(files[data_file], HasColumn(satellite))
    IN
    IF OpenFails(data_file) THEN NoSuchFile
    ELSE IF Raised(read) THEN read
    ELSE
    LET modeltemp == EmTable(data_file).modeltemp
        modelflux == EmTable(data_file).modelflux
    IN
    IF Len(temp) = 0 \/ Len(modeltemp) = 0
    THEN Raise("ValueError", "zero-size array to reduction operation minimum")
    ELSE IF OutOfRange(temp, modeltemp)
    THEN Raise("ValueError", "All values in temp must be within the range")
    ELSE IF TooFewKnots(modeltemp)
    THEN Raise("TypeError", "m > k must hold")
    ELSE
    LET denom == [i \in 1..Len(temp) |-> Splev(modeltemp, modelflux, temp[i])]
    IN  Return([i \in 1..Len(longflux) |-> <<longflux[i], denom[i]>>])

\* the file accesses of _goes_get_chianti_temp, in the order of the code: both
\* files are ensured, the arguments are checked, the file of the abundances
\* is opened and, once the ratios are found in range, the spline evaluated
TempEventsValidateFirst(fluxratio, satellite, abundances) ==
    IF SatLt(satellite, 1) \/ abundances \notin {"coronal", "photospheric"}
    THEN <<>>
    ELSE <<Ensure(FILE_TEMP_COR), Ensure(FILE_TEMP_PHO),
           Open(TempDataFile(abundances))>> \o
         (IF Returned(_goes_get_chianti_temp(fluxratio, satellite, abundances))
          THEN <<Spline(TempDataFile(abundances))>>
          ELSE <<>>)

TempEventsReadFirst(fluxratio, satellite, abundances) ==
    (IF SatLt(satellite, 1) \/ abundances \notin {"coronal", "photospheric"}
     THEN <<>>
     ELSE <<Open(TempDataFile(abundances))>>) \o
    <<Ensure(FILE_TEMP_COR), Ensure(FILE_TEMP_PHO)>> \o
    (IF Returned(_goes_get_chianti_temp(fluxratio, satellite, abundances))
     THEN <<Spline(TempDataFile(abundances))>>
     ELSE <<>>)

TempEvents(fluxratio, satellite, abundances) ==
    <<Ensure(FILE_TEMP_COR), Ensure(FILE_TEMP_PHO)>> \o
    (IF SatLt(satellite, 1) \/ abundances \notin {"coronal", "photospheric"}
     THEN <<>>
     ELSE <<Open(TempDataFile(abundances))>> \o
          (IF Returned(_goes_get_chianti_temp(fluxratio, satellite, abundances))
           THEN <<Spline(TempDataFile(abundances))>>
           ELSE <<>>))

\* the file accesses of _goes_get_chianti_em
EmEvents(longflux, temp, satellite, abundances) ==
    <<Ensure(FILE_EM_COR), Ensure(FILE_EM_PHO)>> \o
    (IF \/ SatLt(satellite, 1)
        \/ abundances \notin {"coronal", "photospheric"}
        \/ EmLengthsDiffer(longflux, temp)
     THEN <<>>
     ELSE <<Open(EmDataFile(abundances))>> \o
          (IF Returned(_goes_get_chianti_em(longflux, temp, satellite, abundances))
           THEN <<Spline(EmDataFile(abundances))>>
           ELSE <<>>))

\* the call of an estimator, as goes_chianti_tem makes it
TempCall(fluxratio, satellite, abundances) ==
    [fn |-> "_goes_get_chianti_temp", fluxratio |-> fluxratio,
     satellite |-> satellite, abundances |-> abundances]
EmCall(longflux, temp, satellite, abundances) ==
    [fn |-> "_goes_get_chianti_em", longflux |-> longflux, temp |-> temp,
     satellite |-> satellite, abundances |-> abundances]

\* what goes_chianti_tem returns or raises (ret), and the calls of the
\* estimators it made on the way (calls)
goes_chianti_tem(longflux, shortflux, satellite, date, abundances) ==
    IF SatLt(satellite, 1)
    THEN [ret |-> Raise("ValueError", "satellite must be the number of a valid GOES satellite (>1)."),
          calls |-> <<>>, events |-> <<>>]
    ELSE IF Len(longflux) # Len(shortflux)
    THEN [ret |-> Raise("ValueError", "longflux and shortflux must have same number of elements."),
          calls |-> <<>>, events |-> <<>>]
    ELSE
    LET longflux_corrected == LongfluxCorrected(longflux, satellite, date)
        shortflux_corrected == ShortfluxCorrected(shortflux, satellite)
        fluxratio == Fluxratio(shortflux_corrected, longflux_corrected)
        temp == _goes_get_chianti_temp(fluxratio, satellite, abundances)
        call1 == TempCall(fluxratio, satellite, abundances)
        events1 == TempEvents(fluxratio, satellite, abundances)
    IN
    IF Raised(temp)
    THEN [ret |-> temp, calls |-> <<call1>>, events |-> events1]
    ELSE
    LET em == _goes_get_chianti_em(longflux_corrected, temp.value, satellite,
                                   abundances)
        call2 == EmCall(longflux_corrected, temp.value, satellite, abundances)
        events2 == EmEvents(longflux_corrected, temp.value, satellite, abundances)
    IN
    IF Raised(em)
    THEN [ret |-> em, calls |-> <<call1, call2>>, events |-> events1 \o events2]
    ELSE [ret |-> Return([temp |-> temp.value, em |-> em.value]),
          calls |-> <<call1, call2>>, events |-> events1 \o events2]

---------------------------------------------------------------------------
(* The calls of goes_chianti_tem. *)

\* longest flux array of a goes_chianti_tem call
MaxFluxLen == 2

\* all arrays of at most MaxFluxLen values of V
FluxArrays(V) == UNION {[1..n -> V] : n \in 0..MaxFluxLen}

\* long fluxes [1e-10 W/m^2]: none, 7e-7, and two values that a correction
\* carries across the threshold 3e-8 (2.2e-8 / 0.7 and 3.5e-8 * 4.43/5.32)
TemLongFluxes == {Int2Rat(v) : v \in {0, 220, 350, 7000}}
\* short fluxes: 7e-8, the threshold 1e-10 itself and a value that the
\* correction carries across it (0.9e-10 / 0.85)
TemShortFluxes == {Rat(9, 10), Int2Rat(1), Int2Rat(700)}
TemSatellites == {PyInt(n) : n \in {0, 6, 7, 8}}
TemDates == {<<1983, 6, 27>>, <<1983, 6, 28>>, <<2014, 4, 16>>}
TemAbundances == {"coronal", "photospheric", "solar"}

GoesChiantiTemCalls ==
    [op : {"goes_chianti_tem"}, longflux : FluxArrays(TemLongFluxes),
     shortflux : FluxArrays(TemShortFluxes), satellite : TemSatellites,
     date : TemDates, abundances : TemAbundances]

InitTem ==
    /\ call \in GoesChiantiTemCalls
    /\ ret = Pending
    /\ calls = <<>>
    /\ pc = "call"
    /\ files = ShippedFiles
    /\ events = <<>>
    /\ goeslc = None
    /\ disk = InstalledDisk

CallGoesChiantiTem ==
    /\ pc = "call"
    /\ call.op = "goes_chianti_tem"
    /\ LET out == goes_chianti_tem(call.longflux, call.shortflux,
                                   call.satellite, call.date, call.abundances)
       IN  /\ ret' = out.ret
           /\ calls' = out.calls
           /\ events' = out.events
    /\ pc' = "done"
    /\ disk' = DiskAfter(disk, events')
    /\ UNCHANGED <<call, files, goeslc>>

NextTem == CallGoesChiantiTem

SpecTem == InitTem /\ [][NextTem]_vars

---------------------------------------------------------------------------
(* Calls of the estimators on reference files of any contents. *)

\* ratios below, at the ends of, inside and above the range of the tables
TabRatios == {Rat(1, 2000), Rat(1, 1000), Rat(1, 2), Int2Rat(1), Int2Rat(2)}
\* log10(T / MK) at the ends of, inside and above the domain of the tables
TabTemps == {Int2Rat(0), Rat(1, 4), Int2Rat(2), Int2Rat(3)}
\* satellites: none, the last one, one without a column, and a text token
TabSatellites == {PyInt(0), PyInt(15), PyInt(16), PyStr(15)}

GoesGetChiantiTempCalls ==
    [op : {"_goes_get_chianti_temp"}, fluxratio : FluxArrays(TabRatios),
     satellite : TabSatellites, abundances : TemAbundances]

GoesGetChiantiEmCalls ==
    [op : {"_goes_get_chianti_em"}, longflux : FluxArrays({Int2Rat(350)}),
     temp : FluxArrays(TabTemps),
     satellite : {PyInt(0), PyInt(15)}, abundances : TemAbundances]

\* fluxes below the thresholds (long flux 0 and 2.2e-8, short flux 0.9e-10)
\* and above them (long flux 3.5e-8, short flux 7e-9)
TabLongFluxes == {Int2Rat(0), Int2Rat(220), Int2Rat(350)}
TabShortFluxes == {Rat(9, 10), Int2Rat(70)}

TabTemCalls ==
    [op : {"goes_chianti_tem"},
     longflux : FluxArrays(TabLongFluxes),
     shortflux : FluxArrays(TabShortFluxes),
     satellite : {PyInt(0), PyInt(7), PyInt(8)},
     date : {<<2014, 4, 16>>}, abundances : TemAbundances]

TabRadLossCalls ==
    [op : {"calc_rad_loss"}, temp : FluxArrays({Int2Rat(2), Int2Rat(9)}),
     em : {<<Int2Rat(1)>>}, obstime : {None}, cumulative : {FALSE}]

InitTables ==
    /\ call \in GoesGetChiantiTempCalls \cup GoesGetChiantiEmCalls
                \cup TabTemCalls \cup TabRadLossCalls
    /\ ret = Pending
    /\ calls = <<>>
    /\ pc = "call"
    /\ files \in DataDirs
    /\ events = <<>>
    /\ goeslc = None
    /\ disk = InstalledDisk

CallGoesGetChiantiTemp ==
    /\ pc = "call"
    /\ call.op = "_goes_get_chianti_temp"
    /\ ret' = _goes_get_chianti_temp(call.fluxratio, call.satellite, call.abundances)
    /\ events' = TempEvents(call.fluxratio, call.satellite, call.abundances)
    /\ pc' = "done"
    /\ disk' = DiskAfter(disk, events')
    /\ UNCHANGED <<call, calls, files, goeslc>>

CallGoesGetChiantiEm ==
    /\ pc = "call"
    /\ call.op = "_goes_get_chianti_em"
    /\ ret' = _goes_get_chianti_em(call.longflux, call.temp, call.satellite,
                                   call.abundances)
    /\ events' = EmEvents(call.longflux, call.temp, call.satellite, call.abundances)
    /\ pc' = "done"
    /\ disk' = DiskAfter(disk, events')
    /\ UNCHANGED <<call, calls, files, goeslc>>

NextTables ==
    \/ CallGoesGetChiantiTemp
    \/ CallGoesGetChiantiEm
    \/ CallGoesChiantiTem
    \/ CallCalcRadLoss

SpecTables == InitTables /\ [][NextTables]_vars

---------------------------------------------------------------------------
(* Calls of the estimators with the keyword arguments download and
   download_dir, on directories that hold the reference files or lack them. *)

\* each directory holds all the reference files or none of them
Disks ==
    {[d \in Dirs |-> [f \in FileNames |-> IF d \in holding THEN 1 ELSE 0]] :
        holding \in SUBSET Dirs}

DownloadKeywords == [download : BOOLEAN, download_dir : Dirs]

WithKeywords(Calls) == {kw @@ c : kw \in DownloadKeywords, c \in Calls}

InitDownload ==
    /\ call \in WithKeywords(GoesGetChiantiTempCalls \cup GoesGetChiantiEmCalls
                             \cup TabTemCalls \cup TabRadLossCalls)
    /\ ret = Pending
    /\ calls = <<>>
    /\ pc = "call"
    /\ files = ShippedFiles
    /\ events = <<>>
    /\ goeslc = None
    /\ disk \in Disks

SpecDownload == InitDownload /\ [][NextTables]_vars

---------------------------------------------------------------------------
(* The wrappers temp_em, rad_loss_rate and xray_luminosity. *)

\* the names that the import statements of the module bind.  "from sunpy
\* import lightcurve" binds lightcurve, and no statement binds sunpy.
ModuleGlobals ==
    {"os", "datetime", "csv", "copy", "socket", "dropwhile", "np", "interpolate",
     "hek", "parse_time", "config", "lightcurve", "check_download_file", "sun"}

\* A GOESLightCurve: the object id, meta["TELESCOP"] = "GOES <n>", data.index
\* and the columns of data.  Any other object has another type.
GOESLightCurve(id, n, index, xrsa, xrsb) ==
    [type |-> "GOESLightCurve", id |-> id, meta |-> [TELESCOP |-> n],
     index |-> index, data |-> [xrsa |-> xrsa, xrsb |-> xrsb]]

\* isinstance(goeslc, lightcurve.GOESLightCurve)
isinstance(obj, class) == obj.type = class

\* copy.deepcopy(goeslc): another object with the same contents
deepcopy(obj) == [obj EXCEPT !.id = obj.id + 1]

\* goeslc_new.data[name] = values
SetColumn(obj, name, values) == [obj EXCEPT !.data = (name :> values) @@ obj.data]

\* goeslc.meta["TELESCOP"].split()[1]: the text after "GOES"
TelescopToken(obj) == PyStr(obj.meta.TELESCOP)

\* lines 163-165 of temp_em: the copy with the columns temperature and em
TempEmColumns(obj, out) ==
    IF Raised(out.ret) THEN out
    ELSE [ret    |-> Return(SetColumn(SetColumn(deepcopy(obj), "temperature",
                                                out.ret.value.temp),
                                      "em", out.ret.value.em)),
          calls  |-> out.calls,
          events |-> out.events]

temp_em(obj, abundances) ==
    IF ~isinstance(obj, "GOESLightCurve")
    THEN [ret |-> Raise("TypeError", "goeslc must be a GOESLightCurve object."),
          calls |-> <<>>, events |-> <<>>]
    ELSE IF Len(obj.index) = 0
    THEN [ret |-> Raise("IndexError", "index 0 is out of bounds"),
          calls |-> <<>>, events |-> <<>>]
    ELSE TempEmColumns(obj, goes_chianti_tem(obj.data.xrsb, obj.data.xrsa,
                                             TelescopToken(obj), obj.index[1],
                                             abundances))

\* line 697 of rad_loss_rate: the column rad_loss_rate on the copy
RadLossColumn(goeslc_new, events1, rad_loss_out) ==
    IF Raised(rad_loss_out) THEN [ret |-> rad_loss_out, events |-> events1]
    ELSE [ret |-> Return(SetColumn(goeslc_new, "rad_loss_rate",
                                   rad_loss_out.value.rad_loss_rate)),
          events |-> events1]

\* lines 693-694 of rad_loss_rate: temperatures are passed on in the unit in
\* which the column holds them
RadLossOfColumns(goeslc_new, events1) ==
    RadLossColumn(goeslc_new,
                  events1 \o RadLossEvents(goeslc_new.data.temperature),
                  calc_rad_loss(goeslc_new.data.temperature, goeslc_new.data.em,
                                None, FALSE))

\* the except branch of rad_loss_rate (lines 684-690), after temp_em
RadLossAfterTempEm(te) ==
    IF Raised(te.ret) THEN [ret |-> te.ret, events |-> te.events]
    ELSE RadLossOfColumns(te.ret.value, te.events)

\* rad_loss_rate.  Its first statement names sunpy.lightcurve.GOESLightCurve;
\* the statements after it are those of the source.
rad_loss_rate(obj) ==
    IF "sunpy" \notin ModuleGlobals
    THEN [ret |-> Raise("NameError", "global name 'sunpy' is not defined"),
          events |-> <<>>]
    ELSE IF ~isinstance(obj, "GOESLightCurve")
    THEN [ret |-> Raise("TypeError", "goeslc must be a GOESLightCurve object."),
          events |-> <<>>]
    ELSE IF {"temperature", "em"} \subseteq DOMAIN obj.data
    THEN RadLossOfColumns(deepcopy(obj), <<>>)
    ELSE RadLossAfterTempEm(temp_em(obj, "coronal"))

\* lines 912-913 of xray_luminosity: the copy with the luminosity columns
LxColumns(obj, lx_out) ==
    IF Raised(lx_out) THEN lx_out
    ELSE Return(SetColumn(SetColumn(deepcopy(obj), "luminosity_xrsa",
                                    lx_out.value.shortlum),
                          "luminosity_xrsb", lx_out.value.longlum))

\* xray_luminosity, whose first statement names sunpy.lightcurve as well
xray_luminosity(obj) ==
    IF "sunpy" \notin ModuleGlobals
    THEN Raise("NameError", "global name 'sunpy' is not defined")
    ELSE IF ~isinstance(obj, "GOESLightCurve")
    THEN Raise("TypeError", "goeslc must be a GOESLightCurve object.")
    ELSE IF Len(obj.index) = 0
    THEN Raise("IndexError", "index 0 is out of bounds")
    ELSE LxColumns(obj, goes_lx(obj.data.xrsb, obj.data.xrsa, None,
                                Some(obj.index[1]), FALSE))

\* flux columns of 1 to MaxFluxLen samples
Columns(V) == UNION {[1..n -> V] : n \in 1..MaxFluxLen}

\* the light curves of GOES 6, 7 and 15 with fluxes that the tables cover,
\* and two objects that are no light curves
LightCurves ==
    UNION {{GOESLightCurve(1, n, [i \in 1..Len(xrsb) |-> date], xrsa, xrsb) :
               n \in {6, 7, 15}, date \in {<<1983, 6, 27>>, <<2014, 4, 16>>},
               xrsa \in {c \in Columns(TabShortFluxes) : Len(c) = Len(xrsb)}} :
           xrsb \in Columns(TabLongFluxes)}

OtherObjects == {[type |-> "int", id |-> 1], [type |-> "DataFrame", id |-> 1]}

WrapperCalls ==
    [op : {"temp_em"}, abundances : TemAbundances]
    \cup [op : {"rad_loss_rate", "xray_luminosity"}]

InitWrappers ==
    /\ call \in WrapperCalls
    /\ goeslc \in LightCurves \cup OtherObjects
    /\ ret = Pending
    /\ calls = <<>>
    /\ pc = "call"
    /\ files = ShippedFiles
    /\ events = <<>>
    /\ disk = InstalledDisk

\* the wrappers work on a copy: none of them assigns to its argument
CallTempEm ==
    /\ pc = "call"
    /\ call.op = "temp_em"
    /\ LET out == temp_em(goeslc, call.abundances)
       IN  /\ ret' = out.ret
           /\ calls' = out.calls
           /\ events' = out.events
    /\ pc' = "done"
    /\ disk' = DiskAfter(disk, events')
    /\ UNCHANGED <<call, files, goeslc>>

CallRadLossRate ==
    /\ pc = "call"
    /\ call.op = "rad_loss_rate"
    /\ LET out == rad_loss_rate(goeslc)
       IN  /\ ret' = out.ret
           /\ events' = out.events
    /\ pc' = "done"
    /\ disk' = DiskAfter(disk, events')
    /\ UNCHANGED <<call, calls, files, goeslc>>

CallXrayLuminosity ==
    /\ pc = "call"
    /\ call.op = "xray_luminosity"
    /\ ret' = xray_luminosity(goeslc)
    /\ pc' = "done"
    /\ UNCHANGED <<call, calls, files, events, goeslc, disk>>

NextWrappers ==
    \/ CallTempEm
    \/ CallRadLossRate
    \/ CallXrayLuminosity

SpecWrappers == InitWrappers /\ [][NextWrappers]_vars

---------------------------------------------------------------------------
(* Claims about the time integration. *)

Done(op) == pc = "done" /\ call.op = op

\* the errors the functions raise themselves to reject their arguments
ValidationErrors == {"ValueError", "IOError"}

StrictlyIncreasing(t) == \A i \in 1..(Len(t) - 1) : t[i] < t[i + 1]

\* the weights _time_intervals computes for an obstime it accepts
WeightsOf(obstime) == _time_intervals(obstime).value

\* calc_rad_loss or goes_lx was called with an obstime array
IntegrationCall ==
    /\ pc = "done"
    /\ call.op \in {"calc_rad_loss", "goes_lx"}
    /\ ~call.obstime.isNone

\* C1: for n >= 2 timestamps _time_intervals returns n weights in seconds:
\* the first is (t[1]-t[0])/2, the last (t[n-1]-t[n-2])/2 and every interior
\* one (t[i+1]-t[i-1])/2, the halves being exact.
C1_Weights ==
    (Done("_time_intervals") /\ Len(call.obstime) >= 2) =>
        LET t == call.obstime
            n == Len(t)
        IN  /\ Returned(ret)
            /\ Len(ret.value) = n
            /\ ret.value[1] = Rat(t[2] - t[1], 2000)
            /\ ret.value[n] = Rat(t[n] - t[n - 1], 2000)
            /\ \A i \in 2..(n - 1) : ret.value[i] = Rat(t[i + 1] - t[i - 1], 2000)

\* C2: calc_rad_loss and goes_lx called with cumulative set and no obstime
\* fail with a validation error and return nothing; when nothing else is
\* wrong with the call the error is the one about the cumulative keyword,
\* and goes_lx raises no other.
C2_CumulativeNeedsObstime ==
    (pc = "done" /\ call.op \in {"calc_rad_loss", "goes_lx"}
        /\ call.obstime.isNone /\ call.cumulative) =>
        /\ ret.raised \in ValidationErrors
        /\ "value" \notin DOMAIN ret
        /\ ret.raised = "IOError" =>
              ret.msg = "cumulative keyword is True but obstime keyword is None."
        /\ call.op = "goes_lx" => ret.raised = "IOError"
        /\ (call.op = "calc_rad_loss" /\ Len(call.temp) = Len(call.em)
              /\ Len(call.temp) > 0
              /\ (\A i \in 1..Len(call.temp) : call.temp[i] = Int2Rat(2)))
              => ret.raised = "IOError"

C2_Witness ==
    /\ Done("calc_rad_loss")
    /\ call.obstime.isNone
    /\ call.cumulative
    /\ Len(call.temp) = 2
    /\ ret = Raise("IOError", "cumulative keyword is True but obstime keyword is None.")

\* the sum of rate[j] * dt[j] for j = 1..i
RECURSIVE PrefixSum(_, _, _)
PrefixSum(rate, dt, i) ==
    IF i = 0 THEN <<0, 1>>
    ELSE RatAdd(PrefixSum(rate, dt, i - 1), RatMul(rate[i], dt[i]))

\* the cumulative series has one entry per sample, entry i is the prefix sum
\* of rate * weight, and the last entry is the integrated total
IsCumulativeOf(cumul, rate, dt, total) ==
    /\ Len(cumul) = Len(rate)
    /\ Len(dt) = Len(rate)
    /\ \A i \in 1..Len(rate) : cumul[i] = PrefixSum(rate, dt, i)
    /\ cumul[Len(cumul)] = total

\* C3: with obstime and cumulative set, the cumulative series of
\* calc_rad_loss and of goes_lx has one entry per sample, entry i is the
\* prefix sum of rate[j]*weight[j], j <= i, and its last entry is the
\* integrated total of the same call.
C3_CumulativeIsPrefixSum ==
    (IntegrationCall /\ call.cumulative /\ Returned(ret)) =>
        LET dt == WeightsOf(call.obstime.val)
            out == ret.value
        IN  IF call.op = "calc_rad_loss"
            THEN IsCumulativeOf(out.rad_loss_cumul, out.rad_loss_rate, dt,
                                out.rad_loss_int)
            ELSE /\ IsCumulativeOf(out.longlum_cumul, out.longlum, dt,
                                   out.longlum_int)
                 /\ IsCumulativeOf(out.shortlum_cumul, out.shortlum, dt,
                                   out.shortlum_int)

\* the three arrays of an integration call have the same length
SameLengths ==
    IF call.op = "calc_rad_loss"
    THEN Len(call.temp) = Len(call.em) /\ Len(call.em) = Len(call.obstime.val)
    ELSE Len(call.longflux) = Len(call.shortflux)
         /\ Len(call.shortflux) = Len(call.obstime.val)

\* some timestamp is earlier than the one before it
HasDecreasingPair(t) == \E i \in 1..(Len(t) - 1) : t[i] > t[i + 1]

\* C4: calc_rad_loss and goes_lx fail whenever obstime (length >= 2) is not
\* in chronological order, also when only an interior pair is out of order.
\* Stated of the calls whose three arrays have the same length and whose
\* obstime holds a decreasing pair.
C4_NonChronologicalRejected ==
    (IntegrationCall /\ SameLengths /\ Len(call.obstime.val) >= 2
        /\ HasDecreasingPair(call.obstime.val)) => Raised(ret)

\* C5 as claimed: _time_intervals never returns a weight <= 0.
C5_TimeIntervalsRejects ==
    (Done("_time_intervals") /\ Returned(ret)) =>
        \A i \in 1..Len(ret.value) : RatLt(<<0, 1>>, ret.value[i])

\* C5 as amended: _time_intervals returns its weights unchecked; the callers
\* calc_rad_loss and goes_lx fail with a validation error whenever one of
\* the weights it computed for their obstime is <= 0.
C5_CallersReject ==
    (IntegrationCall /\ Returned(_time_intervals(call.obstime.val))
        /\ \E i \in 1..Len(call.obstime.val) :
              RatLe(WeightsOf(call.obstime.val)[i], <<0, 1>>)) =>
        /\ ret.raised \in ValidationErrors
        /\ "value" \notin DOMAIN ret

C5_Witness ==
    /\ Done("goes_lx")
    /\ ~call.obstime.isNone
    /\ call.obstime.val = <<0, 2, 2>>
    /\ Len(call.longflux) = 3 /\ Len(call.shortflux) = 3
    /\ ret = Raise("ValueError", "times in obstime must be in chronological order.")

\* C6: _time_intervals fails with a validation error on fewer than 2
\* timestamps, and so do calc_rad_loss and goes_lx called with such an
\* obstime; nothing is returned.
C6_TooFewTimes ==
    /\ (Done("_time_intervals") /\ Len(call.obstime) < 2) =>
          ret = Raise("IOError", "obstime must have 2 or more elements.")
    /\ (IntegrationCall /\ Len(call.obstime.val) < 2) =>
          /\ ret.raised \in ValidationErrors
          /\ "value" \notin DOMAIN ret

C6_Witness ==
    /\ Done("calc_rad_loss")
    /\ ~call.obstime.isNone
    /\ Len(call.obstime.val) = 1
    /\ ret = Raise("IOError", "obstime must have 2 or more elements.")

\* C7: with obstime given, calc_rad_loss and goes_lx fail whenever the
\* lengths of their two sample arrays and of obstime are not all equal.
C7_LengthsChecked ==
    (IntegrationCall /\ ~SameLengths) => Raised(ret)

---------------------------------------------------------------------------
(* Claims about the flux corrections of goes_chianti_tem. *)

\* goes_chianti_tem was called with an integer satellite number and went on
\* to call the temperature estimator
TemLookup ==
    /\ Done("goes_chianti_tem")
    /\ call.satellite.type = "int"
    /\ Len(calls) >= 1

\* it went on to call the emission-measure estimator as well
EmLookup == TemLookup /\ Len(calls) = 2

Before19830628(date) ==
    \/ date[1] < 1983
    \/ date[1] = 1983 /\ date[2] < 6
    \/ date[1] = 1983 /\ date[2] = 6 /\ date[3] < 28

\* the corrected fluxes of sample i as the specification gives them
SpecLong(i) ==
    LET l == call.longflux[i]
        a == IF call.satellite.v = 6 /\ Before19830628(call.date)
             THEN <<l[1] * 443, l[2] * 532>> ELSE l
    IN  IF call.satellite.v > 7 THEN <<a[1] * 10, a[2] * 7>> ELSE a

SpecShort(i) ==
    LET h == call.shortflux[i]
    IN  IF call.satellite.v > 7 THEN <<h[1] * 100, h[2] * 85>> ELSE h

\* equality and order of two fractions that need not be in lowest terms
SameFraction(a, b) == a[1] * b[2] = b[1] * a[2]
FractionBelow(a, k) == a[1] < k * a[2]

\* sample i is below an instrumental threshold after the corrections
SpecMasked(i) == FractionBelow(SpecShort(i), 1) \/ FractionBelow(SpecLong(i), 300)

\* short / long of sample i after the corrections
SpecRatio(i) == <<SpecShort(i)[1] * SpecLong(i)[2], SpecShort(i)[2] * SpecLong(i)[1]>>

\* C8: for a satellite number > 7 the long flux is divided by 0.70 and the
\* short flux by 0.85 before the ratio is taken, and that long flux is the
\* one passed to the emission-measure estimator; for a number <= 7 neither
\* flux is divided.
C8_Goes7Rescaling ==
    /\ TemLookup =>
          \A i \in 1..Len(call.longflux) :
              LET l == call.longflux[i]
                  h == call.shortflux[i]
                  r == calls[1].fluxratio[i]
              IN  \/ r = Rat(3, 1000)
                  \/ IF call.satellite.v > 7
                     THEN SameFraction(r, <<h[1] * 100 * l[2] * 7, h[2] * 85 * l[1] * 10>>)
                     ELSE \/ SameFraction(r, <<h[1] * l[2], h[2] * l[1]>>)
                          \/ SameFraction(r, <<h[1] * l[2] * 532, h[2] * l[1] * 443>>)
    /\ EmLookup =>
          \A i \in 1..Len(call.longflux) :
              LET l == call.longflux[i]
                  c == calls[2].longflux[i]
              IN  IF call.satellite.v > 7
                  THEN SameFraction(c, <<l[1] * 10, l[2] * 7>>)
                  ELSE \/ c = l
                       \/ SameFraction(c, <<l[1] * 443, l[2] * 532>>)

\* a satellite above 7, a sample that is not masked, both estimators called
C8_Witness ==
    /\ EmLookup
    /\ call.satellite.v = 8
    /\ call.longflux = <<Int2Rat(7000)>>
    /\ call.shortflux = <<Int2Rat(700)>>
    /\ calls[1].fluxratio = <<Rat(14, 170)>>
    /\ calls[2].longflux = <<Rat(10000, 1)>>
    /\ Returned(ret)

\* C9: the long flux is scaled by 4.43/5.32 exactly when the satellite is 6
\* and the date is before 1983-06-28; the short flux never is.
C9_Goes6Correction ==
    /\ EmLookup =>
          \A i \in 1..Len(call.longflux) :
              LET l == call.longflux[i]
                  c == calls[2].longflux[i]
                  base == IF call.satellite.v > 7 THEN <<l[1] * 10, l[2] * 7>> ELSE l
              IN  IF call.satellite.v = 6 /\ Before19830628(call.date)
                  THEN SameFraction(c, <<base[1] * 443, base[2] * 532>>)
                  ELSE SameFraction(c, base)
    /\ TemLookup =>
          \A i \in 1..Len(call.longflux) :
              LET r == calls[1].fluxratio[i]
              IN  r = Rat(3, 1000) \/ SameFraction(r, SpecRatio(i))

\* satellite 6 on 1983-06-27, a sample that is not masked
C9_Witness ==
    /\ EmLookup
    /\ call.satellite.v = 6
    /\ call.date = <<1983, 6, 27>>
    /\ call.longflux = <<Int2Rat(7000)>>
    /\ call.shortflux = <<Int2Rat(700)>>
    /\ calls[2].longflux = <<Rat(7000 * 443, 532)>>
    /\ calls[1].fluxratio = <<Rat(532, 4430)>>

\* C10: the ratio handed to the temperature lookup is 0.003 for a sample
\* whose corrected short flux is < 1e-10 or whose corrected long flux is
\* < 3e-8, and corrected-short / corrected-long for every other sample.
C10_QualityMask ==
    TemLookup =>
        /\ Len(calls[1].fluxratio) = Len(call.longflux)
        /\ \A i \in 1..Len(call.longflux) :
              LET r == calls[1].fluxratio[i]
              IN  IF SpecMasked(i)
                  THEN r = Rat(3, 1000)
                  ELSE SameFraction(r, SpecRatio(i))

\* one sample masked only because of its long flux after the correction
\* (3.5e-8 * 4.43/5.32 < 3e-8), beside a sample that is not masked
C10_Witness ==
    /\ TemLookup
    /\ call.satellite.v = 6
    /\ call.date = <<1983, 6, 27>>
    /\ call.longflux = <<Int2Rat(350), Int2Rat(7000)>>
    /\ call.shortflux = <<Int2Rat(700), Int2Rat(700)>>
    /\ calls[1].fluxratio = <<Rat(3, 1000), Rat(532, 4430)>>

---------------------------------------------------------------------------
(* Claims about the estimators and the reference tables. *)

\* the error of the range check of an estimator
IsDomainError(r) ==
    /\ r.raised = "ValueError"
    /\ r.msg \in {"all values in fluxratio input must be within the range",
                  "All values in temp must be within the range"}

\* the value column and the temperature column of the data rows of a file
ColumnOf(f) ==
    {files[f][k].value : k \in {j \in 1..Len(files[f]) : files[f][j].kind = "row"}}
TemperaturesOf(f) ==
    {files[f][k].temp : k \in {j \in 1..Len(files[f]) : files[f][j].kind = "row"}}

\* q lies in the closed range of the values V
InClosedRange(q, V) ==
    /\ \E lo \in V : ~RatLt(q, lo)
    /\ \E hi \in V : ~RatLt(hi, q)

\* the file is a block of comment lines, the header row and data rows
IsPlainTable(f) ==
    \E k \in 1..Len(files[f]) :
        /\ \A j \in 1..(k - 1) : files[f][j].kind = "comment"
        /\ files[f][k].kind = "header"
        /\ \A j \in (k + 1)..Len(files[f]) : files[f][j].kind = "row"
        /\ Len(files[f]) - k >= 4

\* the temperature and emission measure files that the abundances select
SpecTempFile == IF call.abundances = "coronal" THEN FILE_TEMP_COR ELSE FILE_TEMP_PHO
SpecEmFile == IF call.abundances = "coronal" THEN FILE_EM_COR ELSE FILE_EM_PHO

\* the arguments select a column of a table
SelectsColumn ==
    /\ call.abundances \in {"coronal", "photospheric"}
    /\ call.satellite.v \in 1..15

\* C11: _goes_get_chianti_temp, given ratios and a column of a table, raises
\* the domain error (and returns nothing) if some ratio is below the smallest
\* or above the largest ratio of the column; if every ratio lies in the closed
\* range, the ends included, it raises no domain error and returns one
\* temperature per ratio.
C11_RatioDomain ==
    (/\ Done("_goes_get_chianti_temp")
     /\ SelectsColumn
     /\ IsPlainTable(SpecTempFile)
     /\ Len(call.fluxratio) > 0)
    => IF \A i \in 1..Len(call.fluxratio) :
             InClosedRange(call.fluxratio[i], ColumnOf(SpecTempFile))
       THEN Returned(ret) /\ Len(ret.value) = Len(call.fluxratio)
       ELSE IsDomainError(ret)

\* ratios at the two ends of the table are accepted
C11_Witness ==
    /\ Done("_goes_get_chianti_temp")
    /\ files = ShippedFiles
    /\ call.abundances = "coronal"
    /\ call.fluxratio = <<Rat(1, 1000), Int2Rat(1)>>
    /\ Returned(ret)
    /\ ret.value = <<Rat(2, 1000), Int2Rat(2)>>

\* a goes_chianti_tem call with a valid satellite and abundance and at least
\* one sample in flux arrays of equal length, on tables that can be read
ValidTemCall ==
    /\ Done("goes_chianti_tem")
    /\ SelectsColumn
    /\ Len(call.longflux) = Len(call.shortflux)
    /\ Len(call.longflux) > 0
    /\ IsPlainTable(SpecTempFile)
    /\ IsPlainTable(SpecEmFile)

\* the ratio of sample i that the specification hands to the table lookup
SpecLookupRatio(i) ==
    IF SpecMasked(i) THEN Rat(3, 1000) ELSE Rat(SpecRatio(i)[1], SpecRatio(i)[2])

\* C12 as claimed: a call whose samples are all below the thresholds returns
\* a temperature and an emission measure for every sample, whatever the
\* reference tables hold.
C12_MaskedNeverFails ==
    (ValidTemCall /\ \A i \in 1..Len(call.longflux) : SpecMasked(i))
    => /\ Returned(ret)
       /\ Len(ret.value.temp) = Len(call.longflux)
       /\ Len(ret.value.em) = Len(call.longflux)

\* C12: a sample below the thresholds is remapped to the ratio 0.003 and then
\* looked up like any other: the call returns a temperature and an emission
\* measure for every sample if every ratio (0.003 for the remapped samples)
\* lies in the range of the ratio column and every temperature found lies in
\* the domain of the emission measure table, and fails with the domain error
\* otherwise.
C12_MaskedIsLookedUp ==
    ValidTemCall =>
        IF \E i \in 1..Len(call.longflux) :
              ~InClosedRange(SpecLookupRatio(i), ColumnOf(SpecTempFile))
        THEN Len(calls) = 1 /\ IsDomainError(ret)
        ELSE /\ Len(calls) = 2
             /\ IF \E i \in 1..Len(call.longflux) :
                      ~InClosedRange(calls[2].temp[i], TemperaturesOf(SpecEmFile))
                THEN IsDomainError(ret)
                ELSE /\ Returned(ret)
                     /\ Len(ret.value.temp) = Len(call.longflux)
                     /\ Len(ret.value.em) = Len(call.longflux)

\* a sample without long flux beside one above the thresholds: both get a
\* temperature, the first one that of the ratio 0.003
C12_Witness ==
    /\ ValidTemCall
    /\ files = ShippedFiles
    /\ call.satellite.v = 7
    /\ call.abundances = "coronal"
    /\ call.longflux = <<Int2Rat(0), Int2Rat(350)>>
    /\ call.shortflux = <<Int2Rat(70), Int2Rat(70)>>
    /\ Returned(ret)
    /\ ret.value.temp = <<Rat(6, 1000), Rat(2, 5)>>

\* the call with the fluxes of sample i replaced by long and short
WithSample(i, long, short) ==
    [call EXCEPT !.longflux[i] = long, !.shortflux[i] = short]

\* what goes_chianti_tem returns for another call c on the same files
ResultOf(c) ==
    goes_chianti_tem(c.longflux, c.shortflux, c.satellite, c.date, c.abundances).ret

\* sample i of the call c is below a threshold after the corrections
\* (c has the satellite and date of the call)
MaskedIn(c, i) ==
    LET f == IF call.satellite.v > 7 THEN <<100, 70, 85>> ELSE <<1, 1, 1>>
    IN  \/ c.shortflux[i][1] * f[1] < c.shortflux[i][2] * f[3]
        \/ c.longflux[i][1] * f[1] < 300 * c.longflux[i][2] * f[2]

\* two emission measures longflux / denom are the same number
SameEm(a, b) == RatMul(a[1], b[2]) = RatMul(b[1], a[2])

\* P(c, r) holds of every call c that differs from the call in the fluxes of
\* its sample i only, has sample i masked as well, and returns r
ForMaskedVariants(i, P(_, _)) ==
    \A l \in TabLongFluxes, h \in TabShortFluxes :
        LET c == WithSample(i, l, h)
            r == ResultOf(c)
        IN  (MaskedIn(c, i) /\ Returned(r)) => P(c, r)

\* C13 as claimed: the temperature and the emission measure of a masked
\* sample do not depend on the measured fluxes of the sample.
C13_MaskedIsFixed ==
    (ValidTemCall /\ Returned(ret)) =>
        \A i \in 1..Len(call.longflux) :
            SpecMasked(i) =>
                LET Same(c, r) ==
                        /\ r.value.temp[i] = ret.value.temp[i]
                        /\ SameEm(r.value.em[i], ret.value.em[i])
                IN  ForMaskedVariants(i, Same)

\* C13: the temperature of a masked sample is a fixed value, the same for all
\* measured fluxes of the sample.  Its emission measure is not: it is the
\* corrected long flux of the sample divided by a fixed table value, so two
\* calls return the same emission measure for the sample only if its long
\* flux is the same in both.
C13_MaskedTemperatureIsFixed ==
    (ValidTemCall /\ Returned(ret)) =>
        \A i \in 1..Len(call.longflux) :
            SpecMasked(i) =>
                LET Same(c, r) ==
                        /\ r.value.temp[i] = ret.value.temp[i]
                        /\ r.value.em[i][2] = ret.value.em[i][2]
                        /\ SameFraction(ret.value.em[i][1], SpecLong(i))
                        /\ (SameEm(r.value.em[i], ret.value.em[i])
                            <=> c.longflux[i] = call.longflux[i])
                IN  ForMaskedVariants(i, Same)

\* a masked sample with long flux 2.2e-8 whose emission measure differs from
\* the one it would have with no long flux at all
C13_Witness ==
    /\ ValidTemCall
    /\ Returned(ret)
    /\ files = ShippedFiles
    /\ call.satellite.v = 7
    /\ call.longflux = <<Int2Rat(220)>>
    /\ call.shortflux = <<Int2Rat(70)>>
    /\ SpecMasked(1)
    /\ MaskedIn(WithSample(1, Int2Rat(0), Int2Rat(70)), 1)
    /\ ret.value.em[1][1] = Int2Rat(220)
    /\ ResultOf(WithSample(1, Int2Rat(0), Int2Rat(70))).value.em[1][1] = Int2Rat(0)

\* a call of goes_chianti_tem or of one of the two estimators has ended
EstimatorDone ==
    /\ pc = "done"
    /\ call.op \in {"goes_chianti_tem", "_goes_get_chianti_temp", "_goes_get_chianti_em"}

\* the files that the call opened
OpenedFiles == {events[k].file : k \in {j \in 1..Len(events) : events[j].ev = "open"}}

\* the table files that a call of the function reads when it returns
FilesToRead ==
    IF call.op = "_goes_get_chianti_temp" THEN {SpecTempFile}
    ELSE IF call.op = "_goes_get_chianti_em" THEN {SpecEmFile}
    ELSE {SpecTempFile, SpecEmFile}

\* C14: goes_chianti_tem and the two estimators raise an error and return
\* nothing for a satellite number < 1 and for abundances other than
\* "coronal" and "photospheric"; with "coronal" they read the coronal table
\* files only, with "photospheric" the photospheric ones only.
C14_SatelliteAndAbundance ==
    EstimatorDone =>
        /\ (call.satellite.v < 1 \/ call.abundances \notin {"coronal", "photospheric"})
              => Raised(ret) /\ OpenedFiles = {}
        /\ OpenedFiles \subseteq FilesToRead
        /\ Returned(ret) => OpenedFiles = FilesToRead

\* a photospheric lookup that read the photospheric temperature table
C14_Witness ==
    /\ Done("_goes_get_chianti_temp")
    /\ call.abundances = "photospheric"
    /\ call.fluxratio = <<Rat(1, 2)>>
    /\ files = ShippedFiles
    /\ OpenedFiles = {FILE_TEMP_PHO}
    /\ ret = Return(<<Rat(3, 2)>>)

\* what goes_chianti_tem returns for sample i of the call alone
AloneTem(i) ==
    goes_chianti_tem(<<call.longflux[i]>>, <<call.shortflux[i]>>, call.satellite,
                     call.date, call.abundances).ret

\* what _goes_get_chianti_em returns for sample i of the call alone
AloneEm(i) ==
    _goes_get_chianti_em(<<call.longflux[i]>>, <<call.temp[i]>>, call.satellite,
                         call.abundances)

\* C15: goes_chianti_tem raises a ValueError when longflux and shortflux
\* differ in length, and _goes_get_chianti_em when longflux and temp do.  A
\* call that returns gives sequences as long as its inputs, whose entry i
\* is what the call returns for sample i alone.
C15_LengthsAndAlignment ==
    /\ (Done("goes_chianti_tem") /\ Len(call.longflux) # Len(call.shortflux))
          => ret.raised = "ValueError"
    /\ (Done("_goes_get_chianti_em") /\ Len(call.longflux) # Len(call.temp))
          => ret.raised = "ValueError"
    /\ (Done("goes_chianti_tem") /\ Returned(ret))
          => /\ Len(call.shortflux) = Len(call.longflux)
             /\ Len(ret.value.temp) = Len(call.longflux)
             /\ Len(ret.value.em) = Len(call.longflux)
             /\ \A i \in 1..Len(call.longflux) :
                   LET alone == AloneTem(i)
                   IN  /\ Returned(alone)
                       /\ ret.value.temp[i] = alone.value.temp[1]
                       /\ ret.value.em[i] = alone.value.em[1]
    /\ (Done("_goes_get_chianti_em") /\ Returned(ret))
          => /\ Len(call.temp) = Len(call.longflux)
             /\ Len(ret.value) = Len(call.longflux)
             /\ \A i \in 1..Len(call.longflux) :
                   LET alone == AloneEm(i)
                   IN  Returned(alone) /\ ret.value[i] = alone.value[1]

\* one long flux with two temperatures is rejected before the table is read
C15_Witness ==
    /\ Done("_goes_get_chianti_em")
    /\ call.satellite = PyInt(15)
    /\ call.abundances = "coronal"
    /\ files = ShippedFiles
    /\ call.longflux = <<Int2Rat(350)>>
    /\ call.temp = <<Int2Rat(0), Int2Rat(2)>>
    /\ ret.raised = "ValueError"
    /\ events = <<Ensure(FILE_EM_COR), Ensure(FILE_EM_PHO)>>

---------------------------------------------------------------------------
(* Claims about the wrappers. *)

\* a wrapper has been called and has come back
WrapperDone == pc = "done" /\ call.op \in {"temp_em", "rad_loss_rate", "xray_luminosity"}

\* C16: a wrapper whose argument is not a GOESLightCurve raises a TypeError,
\* and it does so before anything is computed or read.
C16_WrongTypeIsTypeError ==
    (WrapperDone /\ goeslc \in OtherObjects)
       => /\ ret.raised = "TypeError"
          /\ calls = <<>>
          /\ events = <<>>

\* the columns that a wrapper adds
NewColumns(op) ==
    CASE op = "temp_em"         -> {"temperature", "em"}
      [] op = "rad_loss_rate"   -> {"temperature", "em", "rad_loss_rate"}
      [] op = "xray_luminosity" -> {"luminosity_xrsa", "luminosity_xrsb"}

\* C17: called on a GOESLightCurve, a wrapper returns another object with
\* the metadata, the index and the columns of its argument and with the new
\* columns of the wrapper (temp_em being given abundances that it knows).
C17_ReturnsCopyWithColumns ==
    (/\ WrapperDone
     /\ goeslc \in LightCurves
     /\ call.op = "temp_em" => call.abundances \in {"coronal", "photospheric"})
       => /\ Returned(ret)
          /\ ret.value.type = "GOESLightCurve"
          /\ ret.value.id # goeslc.id
          /\ ret.value.meta = goeslc.meta
          /\ ret.value.index = goeslc.index
          /\ DOMAIN ret.value.data = DOMAIN goeslc.data \cup NewColumns(call.op)
          /\ \A name \in DOMAIN goeslc.data : ret.value.data[name] = goeslc.data[name]

---------------------------------------------------------------------------
(* Claims about the order of the file accesses, the keys of the results and
   the comment lines of the files. *)

\* a call of goes_chianti_tem, of an estimator or of calc_rad_loss has ended
TableCallDone == pc = "done" /\ call.op \in
    {"goes_chianti_tem", "_goes_get_chianti_temp", "_goes_get_chianti_em",
     "calc_rad_loss"}

\* no check_download_file step of s follows an open or a spline of s
EnsureComesFirst(s) ==
    \A j, k \in 1..Len(s) :
        (j < k /\ s[j].ev # "check_download_file") => s[k].ev # "check_download_file"

\* the accesses of the call to the files in F, in their order
IsOn(e, F) == e.file \in F
AccessesTo(F) == SelectSeq(events, LAMBDA e : IsOn(e, F))

TempFiles == {FILE_TEMP_COR, FILE_TEMP_PHO}
EmFiles == {FILE_EM_COR, FILE_EM_PHO}

\* s begins with the steps of p
StartsWith(s, p) == Len(s) >= Len(p) /\ SubSeq(s, 1, Len(p)) = p

HasKeysIff(K, yes) == \A k \in K : k \in DOMAIN ret.value <=> yes

ReadOf(f) ==
    IF f = FILE_RAD_COR THEN ReadPlainTable(files[f])
    ELSE ReadDictTable(files[f], TRUE)

\* the lines of f that are no comment lines, and what reading them gives
NoComments(f) ==
    LET IsNoComment(l) == l.kind # "comment"
    IN  SelectSeq(files[f], IsNoComment)
ReadNoComments(f) ==
    IF f = FILE_RAD_COR THEN ReadPlainTable(NoComments(f))
    ELSE ReadDictTable(NoComments(f), TRUE)

\* the call names a column that the files have
ColumnExists == call.op = "calc_rad_loss" \/ HasColumn(call.satellite)

RECURSIVE LeadingComments(_)
LeadingComments(lines) ==
    IF Len(lines) = 0 \/ lines[1].kind # "comment" THEN 0
    ELSE 1 + LeadingComments(Tail(lines))

\* the lines after the leading block of comment lines
AfterLeadingComments(f) ==
    SubSeq(files[f], LeadingComments(files[f]) + 1, Len(files[f]))

\* a comment line follows a line that is none
HasLaterComment(f) ==
    \E k \in 1..Len(AfterLeadingComments(f)) :
        AfterLeadingComments(f)[k].kind = "comment"

\* the table of the data rows
TableOf(rows) ==
    [temp  |-> [i \in 1..Len(rows) |-> rows[i].temp],
     value |-> [i \in 1..Len(rows) |-> rows[i].value]]

---------------------------------------------------------------------------
(* Claims about the weights of strictly increasing timestamps, the directory
   of the reference files and the satellite number of the wrappers. *)

ChronologicalError ==
    Raise("ValueError", "times in obstime must be in chronological order.")

\* C21: for strictly increasing timestamps, two or more, every weight of
\* _time_intervals is > 0, and calc_rad_loss and goes_lx do not reject them
\* as not being in chronological order.
C21_IncreasingTimesAccepted ==
    /\ (Done("_time_intervals") /\ Len(call.obstime) >= 2
           /\ StrictlyIncreasing(call.obstime))
          => /\ Returned(ret)
             /\ \A i \in 1..Len(ret.value) : RatLt(<<0, 1>>, ret.value[i])
    /\ (IntegrationCall /\ Len(call.obstime.val) >= 2
           /\ StrictlyIncreasing(call.obstime.val))
          => ret # ChronologicalError

\* t[n-1] - t[0] in seconds
SpanSeconds(t) == Rat(t[Len(t)] - t[1], 1000)

\* all entries of a are the same
IsConstant(a) == \A i \in 1..Len(a) : a[i] = a[1]

\* C22: the weights that _time_intervals returns for two or more timestamps
\* add up to the time from the first to the last of them, in seconds, and
\* goes_lx integrates a constant short-channel luminosity c to c times that
\* time.
C22_WeightsSumToSpan ==
    /\ (Done("_time_intervals") /\ Len(call.obstime) >= 2)
          => /\ Returned(ret)
             /\ RatSum(ret.value) = SpanSeconds(call.obstime)
    /\ (Done("goes_lx") /\ Returned(ret) /\ ~call.obstime.isNone /\ SameLengths
           /\ Len(call.obstime.val) >= 2 /\ IsConstant(call.shortflux))
          => ret.value.shortlum_int
                = RatMul(ret.value.shortlum[1], SpanSeconds(call.obstime.val))

\* C23: in _goes_get_chianti_temp, _goes_get_chianti_em and calc_rad_loss the
\* table is read from the directory in which check_download_file has just
\* made sure of the file, whatever download_dir is, and the reading does not
\* fail for want of the file.
C23_ReadsEnsuredFile ==
    (pc = "done" /\ call.op \in {"_goes_get_chianti_temp", "_goes_get_chianti_em",
                                 "calc_rad_loss"})
       => /\ ret # NoSuchFile
          /\ OpenedFiles # {} => OpenDir = DownloadDir

\* goes_chianti_tem on the columns of the light curve, with the number in
\* TELESCOP as an integer
TemOfNumber ==
    goes_chianti_tem(goeslc.data.xrsb, goeslc.data.xrsa,
                     PyInt(goeslc.meta.TELESCOP), goeslc.index[1],
                     call.abundances).ret

\* C24: temp_em gives the temperature and emission measure, or the error,
\* that goes_chianti_tem gives for the integer satellite number of TELESCOP:
\* rescaled only for a number > 7, corrected for GOES 6 before 1983-06-28.
C24_TempEmUsesSatelliteNumber ==
    (Done("temp_em") /\ goeslc \in LightCurves)
       => LET tem == TemOfNumber
          IN  /\ Raised(tem) => ret = tem
              /\ Returned(tem)
                    => /\ Returned(ret)
                       /\ ret.value.data.temperature = tem.value.temp
                       /\ ret.value.data.em = tem.value.em

\* the arguments that goes_chianti_tem rejects itself, those that
\* _goes_get_chianti_temp rejects (also when goes_chianti_tem calls it) and
\* those that _goes_get_chianti_em rejects
BadAbundances == call.abundances \notin {"coronal", "photospheric"}
RejectedByTem ==
    /\ call.op = "goes_chianti_tem"
    /\ SatLt(call.satellite, 1) \/ Len(call.longflux) # Len(call.shortflux)
RejectedByTemp ==
    \/ call.op = "_goes_get_chianti_temp"
          /\ (SatLt(call.satellite, 1) \/ BadAbundances)
    \/ call.op = "goes_chianti_tem" /\ ~RejectedByTem /\ BadAbundances
RejectedByEm ==
    /\ call.op = "_goes_get_chianti_em"
    /\ \/ SatLt(call.satellite, 1)
       \/ BadAbundances
       \/ Len(call.longflux) # Len(call.temp)

\* C25 as stated: a call rejected for its satellite, its abundances or the
\* lengths of its arrays has run no check_download_file step.
C25_RejectedBeforeEnsure ==
    (pc = "done" /\ (RejectedByTem \/ RejectedByTemp \/ RejectedByEm))
       => Raised(ret) /\ events = <<>>

\* check_download_file on both files a and b has, in download_dir, fetched
\* each of them that it was told to replace or that was not there, and has
\* changed nothing else
FetchedBoth(a, b) ==
    /\ \A f \in {a, b} :
          disk'[DownloadDir][f] =
             IF call.download \/ disk[DownloadDir][f] = 0
             THEN disk[DownloadDir][f] + 1
             ELSE disk[DownloadDir][f]
    /\ \A d \in Dirs, f \in FileNames :
          (d # DownloadDir \/ f \notin {a, b}) => disk'[d][f] = disk[d][f]

\* C25, amended: goes_chianti_tem rejects a satellite < 1 and fluxes of
\* unequal length before any check_download_file step, and the directories
\* stay as they are.  The two estimators run the check_download_file steps
\* for their two files before they look at their arguments: a call that they
\* reject (goes_chianti_tem with unknown abundances among them) has run both
\* steps, and with download=True, or with a file that download_dir lacks, it
\* has fetched files into download_dir.
C25_EstimatorsEnsureFirst ==
    [][pc' = "done" =>
          /\ RejectedByTem
                => /\ ret'.raised = "ValueError"
                   /\ events' = <<>>
                   /\ disk' = disk
          /\ RejectedByTemp
                => /\ ret'.raised = "ValueError"
                   /\ events' = <<Ensure(FILE_TEMP_COR), Ensure(FILE_TEMP_PHO)>>
                   /\ FetchedBoth(FILE_TEMP_COR, FILE_TEMP_PHO)
          /\ RejectedByEm
                => /\ ret'.raised = "ValueError"
                   /\ events' = <<Ensure(FILE_EM_COR), Ensure(FILE_EM_PHO)>>
                   /\ FetchedBoth(FILE_EM_COR, FILE_EM_PHO)]_vars

\* _goes_get_chianti_temp with unknown abundances and download=True: both
\* temperature files of download_dir were fetched anew before the rejection
C25_Witness ==
    /\ Done("_goes_get_chianti_temp")
    /\ call.abundances = "solar"
    /\ call.satellite = PyInt(15)
    /\ call.download
    /\ call.download_dir = OtherDir
    /\ ret.raised = "ValueError"
    /\ events = <<Ensure(FILE_TEMP_COR), Ensure(FILE_TEMP_PHO)>>
    /\ disk[OtherDir][FILE_TEMP_COR] = 2
    /\ disk[OtherDir][FILE_TEMP_PHO] = 2
    /\ disk[OtherDir][FILE_EM_COR] = 1

====
